---- MODULE Spec2Model ----
(***************************************************************************)
(* Model of the two notebooks of the Binder repository:                    *)
(*   src/fastai_course/quadratic_parameter_estimation.ipynb                *)
(*   src/titanic/titanic.ipynb                                             *)
(*                                                                         *)
(* Numbers.  numpy float64 and torch float32 values are modelled as        *)
(* extended rationals <<n, d>>: a finite value is a reduced fraction n/d   *)
(* with d > 0; <<1,0>> is +inf, <<-1,0>> is -inf and <<0,0>> is NaN.  The  *)
(* model keeps the IEEE rules for the non-finite values (inf - inf = NaN,  *)
(* inf * 0 = NaN, every ordered comparison with NaN is false) and the      *)
(* finite range (a result whose magnitude exceeds FMax becomes +-inf); it  *)
(* idealises the precision: finite results are exact.                      *)
(***************************************************************************)
EXTENDS Integers, Sequences, FiniteSets, TLC

\* ------------------------------------------------------------------ bounds
\* Largest number of samples drawn (n_samples).
MaxN == 4
\* Largest max_iterations a gradient-descent call is given.
MaxIter == 3
\* Largest finite magnitude of the float model (stands for the float maximum).
FMax == 10000

\* ------------------------------------------------------- float arithmetic
Abs(n) == IF n < 0 THEN -n ELSE n

Sgn(n) == IF n < 0 THEN -1 ELSE IF n > 0 THEN 1 ELSE 0

RECURSIVE GCD(_, _)
GCD(a, b) == IF b = 0 THEN a ELSE GCD(b, a % b)

PInf == <<1, 0>>

NInf == <<-1, 0>>

NaN == <<0, 0>>

IsNaN(a) == a = NaN

IsFinite(a) == a[2] # 0

\* The float n/d (d > 0): reduced, and +-inf when it overflows the range.
Fl(n, d) ==
  IF Abs(n) > FMax * d THEN <<Sgn(n), 0>>
  ELSE LET g == GCD(Abs(n), d) IN <<n \div g, d \div g>>

FI(i) == Fl(i, 1)

FNeg(a) == <<-a[1], a[2]>>

FAdd(a, b) ==
  IF IsNaN(a) \/ IsNaN(b) THEN NaN
  ELSE IF ~IsFinite(a) /\ ~IsFinite(b) THEN (IF a = b THEN a ELSE NaN)
  ELSE IF ~IsFinite(a) THEN a
  ELSE IF ~IsFinite(b) THEN b
  ELSE LET g == GCD(a[2], b[2])
           l == (a[2] \div g) * b[2]
       IN Fl(a[1] * (l \div a[2]) + b[1] * (l \div b[2]), l)

FSub(a, b) == FAdd(a, FNeg(b))

FMul(a, b) ==
  IF IsNaN(a) \/ IsNaN(b) THEN NaN
  ELSE IF ~IsFinite(a) \/ ~IsFinite(b)
       THEN (IF a[1] = 0 \/ b[1] = 0 THEN NaN ELSE <<Sgn(a[1]) * Sgn(b[1]), 0>>)
  ELSE IF (Abs(a[1]) \div a[2]) * (Abs(b[1]) \div b[2]) > FMax
       THEN <<Sgn(a[1]) * Sgn(b[1]), 0>>
  ELSE LET g1 == GCD(Abs(a[1]), b[2])
           g2 == GCD(Abs(b[1]), a[2])
       IN Fl((a[1] \div g1) * (b[1] \div g2), (a[2] \div g2) * (b[2] \div g1))

\* a / k for an integer k > 0 (the division inside np.mean).
FDivI(a, k) ==
  IF ~IsFinite(a) THEN a
  ELSE LET g == GCD(Abs(a[1]), k) IN Fl(a[1] \div g, a[2] * (k \div g))

\* a < b as Python evaluates it on floats: false when either side is NaN.
FLt(a, b) ==
  IF IsNaN(a) \/ IsNaN(b) THEN FALSE
  ELSE IF a = b THEN FALSE
  ELSE IF a = NInf \/ b = PInf THEN TRUE
  ELSE IF a = PInf \/ b = NInf THEN FALSE
  ELSE LET g == GCD(a[2], b[2])
           l == (a[2] \div g) * b[2]
       IN a[1] * (l \div a[2]) < b[1] * (l \div b[2])

\* a == b on floats: NaN equals nothing, itself included.
FEq(a, b) == ~IsNaN(a) /\ ~IsNaN(b) /\ a = b

FLe(a, b) == FLt(a, b) \/ FEq(a, b)

Zero == FI(0)

\* np.sum / torch.sum of a sequence of floats.
RECURSIVE FSum(_)
FSum(s) == IF s = <<>> THEN Zero ELSE FAdd(FSum(SubSeq(s, 1, Len(s) - 1)), s[Len(s)])

\* np.mean of a non-empty sequence of floats.
FMean(s) == FDivI(FSum(s), Len(s))

\* An array (a numpy array, a tensor) holds evaluated elements: the sequence
\* with the elements of the function f on 1 .. n.
Arr(f) == SubSeq(f, 1, Len(f))

Tup3(f) == <<f[1], f[2], f[3]>>

\* Element-wise helpers on arrays (sequences of floats).
VSub(u, v) == Arr([i \in DOMAIN u |-> FSub(u[i], v[i])])

VMul(u, v) == Arr([i \in DOMAIN u |-> FMul(u[i], v[i])])

VScale(k, u) == Arr([i \in DOMAIN u |-> FMul(k, u[i])])

VSquare(u) == VMul(u, u)

\* ------------------------------------------------------ model and sampler
\* quadratic(x) of quadratic_factory(a, b, c): a * x**2 + b * x + c.
Quadratic(p, xs) ==
  Arr([i \in DOMAIN xs |->
         FAdd(FAdd(FMul(p[1], FMul(xs[i], xs[i])), FMul(p[2], xs[i])), p[3])])

\* Values a sample coordinate and a ground-truth coefficient range over.
XVals == -2 .. 2

TVals == {0, 1}

\* The noise np.random.randn(*x.shape) * sigma adds to n samples: none
\* (sigma = 0), or one sample displaced by one unit.
NoisePatterns(n) ==
  {[i \in 1 .. n |-> 0]} \cup {[i \in 1 .. n |-> IF i = k THEN 1 ELSE 0] : k \in 1 .. n}

IsSorted(s) == \A i \in 1 .. Len(s) - 1 : s[i] <= s[i + 1]

\* noisy_quad(x): quadratic(x) plus one noise draw per element.
NoisyQuad(p, xs, noise) ==
  LET q == Quadratic(p, xs) IN Arr([i \in DOMAIN xs |-> FAdd(q[i], FI(noise[i]))])

IntsToFloats(s) == Arr([i \in DOMAIN s |-> FI(s[i])])

\* ---------------------------------------------------- 3x3 linear algebra
\* Variant of DesignRow with the first two columns exchanged.
DesignRowSwapped(xi) == <<xi, FMul(xi, xi), FI(1)>>

\* Rows of the design matrix np.vstack((x**2, x, np.ones_like(x))).T
DesignRow(xi) == <<FMul(xi, xi), xi, FI(1)>>

DesignMatrix(xs) == Arr([i \in DOMAIN xs |-> DesignRow(xs[i])])

\* np.dot(matrix_x.T, matrix_x): the 3x3 normal matrix.
NormalMatrix(xs) ==
  LET matrix_x == DesignMatrix(xs)
  IN Tup3([r \in 1 .. 3 |-> Tup3([c \in 1 .. 3 |->
       FSum(Arr([i \in DOMAIN xs |-> FMul(matrix_x[i][r], matrix_x[i][c])]))])])

\* Integer numerators of a matrix of integer-valued floats.
Num(m) == Tup3([r \in 1 .. 3 |-> Tup3([c \in 1 .. 3 |-> m[r][c][1]])])

Det3(a) ==
    a[1][1] * (a[2][2] * a[3][3] - a[2][3] * a[3][2])
  - a[1][2] * (a[2][1] * a[3][3] - a[2][3] * a[3][1])
  + a[1][3] * (a[2][1] * a[3][2] - a[2][2] * a[3][1])

Rot(i) == (i % 3) + 1

\* Cofactor (r, c) of a 3x3 integer matrix.
Cof(a, r, c) ==
    a[Rot(r)][Rot(c)] * a[Rot(Rot(r))][Rot(Rot(c))]
  - a[Rot(r)][Rot(Rot(c))] * a[Rot(Rot(r))][Rot(c)]

IsSingular(m) == Det3(Num(m)) = 0

\* np.linalg.inv of a non-singular matrix of integer-valued floats: adj / det.
Inv(m) ==
  LET a == Num(m)
      d == Det3(a)
  IN Tup3([r \in 1 .. 3 |-> Tup3([c \in 1 .. 3 |->
        IF d > 0 THEN Fl(Cof(a, c, r), d) ELSE Fl(-Cof(a, c, r), -d)])])

\* np.dot of a 3x3 matrix and a 3-vector.
MatVec(m, v) ==
  Tup3([r \in 1 .. 3 |->
          FAdd(FAdd(FMul(m[r][1], v[1]), FMul(m[r][2], v[2])), FMul(m[r][3], v[3]))])

\* ------------------------------------------------------------------ state
VARIABLES
  n_samples,        \* number of samples drawn
  targets,          \* ground-truth (a, b, c)
  x, y,             \* the sample set
  qr_result,        \* outcome of quadratic_regression(x, y)
  hessian,          \* the global hessian (<<>> until its cell has run)
  params,           \* the global start point drawn for the solvers
  solution,         \* outcome of the single-step Newton update
  frame,            \* locals of the running gradient-descent call
  gd_result,        \* what the gradient-descent call returned or raised
  objective_value,  \* outcome of objective(parameters) and jacobian(parameters)
  hess_value,       \* what the hess callback returned to Newton-CG
  passenger,        \* one row of the titanic frame (<<>> until it is read)
  bh_test,          \* the Birkenhead prediction for the row
  modified,         \* the row process_ticket returns
  named             \* the row process_names returns

\* The variables of the titanic notebook.
titanic_vars == <<passenger, bh_test, modified, named>>

vars == <<n_samples, targets, x, y, qr_result, hessian, params, solution,
          frame, gd_result, objective_value, hess_value, titanic_vars>>

None == <<>>

NoResult == [status |-> "none"]

NoFrame == [fn |-> "none"]

\* Start points np.random.randn(3) is taken to produce.
Starts == {<<0, 0, 0>>, <<1, -1, 2>>}

\* ------------------------------------------------- quadratic_regression
\* np.dot(np.linalg.inv(np.dot(matrix_x.T, matrix_x)), matrix_x.T), given the inverse.
MatrixXInv(inv, xs) ==
  LET matrix_x == DesignMatrix(xs)
  IN Tup3([r \in 1 .. 3 |-> Arr([i \in DOMAIN xs |->
       FAdd(FAdd(FMul(inv[r][1], matrix_x[i][1]), FMul(inv[r][2], matrix_x[i][2])),
            FMul(inv[r][3], matrix_x[i][3]))])])

\* best_fit = np.dot(matrix_x_inv, y)
BestFit(inv, xs, ys) ==
  LET matrix_x_inv == MatrixXInv(inv, xs)
  IN Tup3([r \in 1 .. 3 |-> FSum(VMul(matrix_x_inv[r], ys))])

\* cost = np.mean((y_predict - y) ** 2) at the fitted parameters.
MeanSquaredResidual(p, xs, ys) == FMean(VSquare(VSub(Quadratic(p, xs), ys)))

\* What np.linalg.inv gives for a singular matrix when rounding hides the zero
\* pivot from the LU factorisation: an "inverse" with entries of huge magnitude.
Huge == Fl(FMax, 1)

GarbageInverse == <<<<Huge, Huge, Huge>>, <<Huge, Huge, Huge>>, <<Huge, Huge, Huge>>>>

\* The outcomes of np.linalg.inv(m): the exact inverse of a non-singular matrix;
\* for a singular one either LinAlgError or a garbage inverse.
InvOutcomes(m) ==
  IF IsSingular(m)
  THEN {[status |-> "LinAlgError"], [status |-> "ok", inv |-> GarbageInverse]}
  ELSE {[status |-> "ok", inv |-> Inv(m)]}

\* quadratic_regression(x, y) for one outcome of the inversion.
QuadraticRegression(xs, ys, o) ==
  IF o.status = "LinAlgError" THEN [status |-> "LinAlgError"]
  ELSE LET best_fit == BestFit(o.inv, xs, ys)
       IN [status |-> "returned",
           cost |-> MeanSquaredResidual(best_fit, xs, ys),
           fit_params |-> best_fit]

\* qr_result = quadratic_regression(x, y)
QuadraticRegressionCall ==
  /\ qr_result = NoResult
  /\ \E o \in InvOutcomes(NormalMatrix(x)) : qr_result' = QuadraticRegression(x, y, o)
  /\ UNCHANGED <<n_samples, targets, x, y, hessian, params, solution, frame, gd_result,
                 objective_value,
                 hess_value, titanic_vars>>

\* --------------------------------------------- jacobian, hessian, Newton
\* Variant of Jacobian scaled by the mean, as gradient_descent_exact scales it.
JacobianMean(p, xs, ys) ==
  LET y_prime == Quadratic(p, xs)
      r == VSub(y_prime, ys)
      da == FMul(FI(2), FMean(VMul(VSquare(xs), r)))
      db == FMul(FI(2), FMean(VMul(xs, r)))
      dc == FMul(FI(2), FMean(r))
  IN <<da, db, dc>>

\* jacobian(parameters), reading the globals x and y.
Jacobian(p, xs, ys) ==
  LET y_prime == Quadratic(p, xs)
      r == VSub(y_prime, ys)
      da == FMul(FI(2), FSum(VMul(VSquare(xs), r)))
      db == FMul(FI(2), FSum(VMul(xs, r)))
      dc == FMul(FI(2), FSum(r))
  IN <<da, db, dc>>

\* Variant of Hessian whose last row follows the derivation written above the
\* cell (d2l/dcda = 2*sum(x^4), d2l/dcdb = 2*sum(x^3)).
HessianAsDerived(xs, n) ==
  LET x2 == VSquare(xs)
      dada == FMul(FI(2), FSum(VSquare(x2)))
      dadb == FMul(FI(2), FSum(VMul(x2, xs)))
      dadc == FMul(FI(2), FSum(x2))
      dbda == FMul(FI(2), FSum(VMul(x2, xs)))
      dbdb == FMul(FI(2), FSum(x2))
      dbdc == FMul(FI(2), FSum(xs))
      dcda == FMul(FI(2), FSum(VSquare(x2)))
      dcdb == FMul(FI(2), FSum(VMul(x2, xs)))
      dcdc == FI(2 * n)
  IN <<<<dada, dadb, dadc>>, <<dbda, dbdb, dbdc>>, <<dcda, dcdb, dcdc>>>>

\* The hessian cell: nine entries from x and the global n_samples.
Hessian(xs, n) ==
  LET x2 == VSquare(xs)
      dada == FMul(FI(2), FSum(VSquare(x2)))
      dadb == FMul(FI(2), FSum(VMul(x2, xs)))
      dadc == FMul(FI(2), FSum(x2))
      dbda == FMul(FI(2), FSum(VMul(x2, xs)))
      dbdb == FMul(FI(2), FSum(x2))
      dbdc == FMul(FI(2), FSum(xs))
      dcda == FMul(FI(2), FSum(x2))
      dcdb == FMul(FI(2), FSum(xs))
      dcdc == FI(2 * n)
  IN <<<<dada, dadb, dadc>>, <<dbda, dbdb, dbdc>>, <<dcda, dcdb, dcdc>>>>

\* The cell that defines hessian and draws params = np.random.randn(3).
HessianCell ==
  /\ qr_result.status = "returned"
  /\ hessian = None
  /\ hessian' = Hessian(x, n_samples)
  /\ \E p \in Starts : params' = IntsToFloats(p)
  /\ UNCHANGED <<n_samples, targets, x, y, qr_result, solution, frame, gd_result,
                 objective_value,
                 hess_value, titanic_vars>>

\* params - np.dot(np.linalg.inv(hessian), jacobian(params)) for one outcome of inv.
NewtonUpdate(p, h, xs, ys, o) ==
  IF o.status = "LinAlgError" THEN [status |-> "LinAlgError"]
  ELSE LET step == MatVec(o.inv, Jacobian(p, xs, ys))
       IN [status |-> "returned", value |-> Tup3([k \in 1 .. 3 |-> FSub(p[k], step[k])])]

\* solution = params - np.dot(np.linalg.inv(hessian), jacobian(params))
NewtonStep ==
  /\ hessian # None
  /\ solution = NoResult
  /\ \E o \in InvOutcomes(hessian) : solution' = NewtonUpdate(params, hessian, x, y, o)
  /\ UNCHANGED <<n_samples, targets, x, y, qr_result, hessian, params, frame, gd_result,
                 objective_value,
                 hess_value, titanic_vars>>

\* Variant of Hess that rebuilds the matrix with the parameter point as its
\* last diagonal entry.
HessAtPoint(parameters) ==
  <<hessian[1], hessian[2], <<hessian[3][1], hessian[3][2], parameters[3]>>>>

\* hess=lambda _: hessian, the callback Newton-CG is given: it reads the global.
Hess(parameters) == hessian

\* Newton-CG asks the hess callback for the matrix at a parameter point.
HessCall ==
  /\ hessian # None
  /\ hess_value = NoResult
  /\ \E p \in Starts :
       hess_value' = [status |-> "returned", parameters |-> IntsToFloats(p),
                      value |-> Hess(IntsToFloats(p))]
  /\ UNCHANGED <<n_samples, targets, x, y, qr_result, hessian, params, solution, frame,
                 gd_result, objective_value, titanic_vars>>

\* ------------------------------------------------------ gradient_descent
\* The locals of gradient_descent / gradient_descent_exact at the loop head.
\* grad is parameters.grad (the tensor cost.backward() adds into); cost is
\* None until the loop body has assigned it.
NewFrame(fn, lr, mi, start) ==
  [fn |-> fn, learning_rate |-> lr, max_iterations |-> mi,
   parameters |-> start, grad |-> <<Zero, Zero, Zero>>,
   best_parameters |-> None, best_cost |-> PInf,
   iteration |-> 0, costs |-> <<>>, grads |-> <<>>, params |-> <<>>, cost |-> None]

\* torch.square(y_predict - y).sum() / np.square(y_predict - y).sum()
SumSquaredResiduals(p, xs, ys) == FSum(VSquare(VSub(Quadratic(p, xs), ys)))

\* What cost.backward() computes for the leaf parameters: the gradient of the
\* sum of squared residuals at p.
AutogradGradient(p, xs, ys) ==
  LET r == VScale(FI(2), VSub(Quadratic(p, xs), ys))
  IN <<FSum(VMul(r, VSquare(xs))), FSum(VMul(r, xs)), FSum(r)>>

\* cost.backward(): the new gradient is added into parameters.grad.
Backward(grad, g) == Tup3([k \in 1 .. 3 |-> FAdd(grad[k], g[k])])

\* parameters -= gradient * learning_rate
Descend(p, g, lr) == Tup3([k \in 1 .. 3 |-> FSub(p[k], FMul(g[k], lr))])

\* Variant of TrackBest comparing with <= (a tie replaces the earlier record).
TrackBestLe(f, cost, recorded) ==
  IF FLe(cost, f.best_cost)
  THEN [f EXCEPT !.best_cost = cost, !.best_parameters = recorded]
  ELSE f

\* if costs[-1] < best_cost: best_cost = costs[-1]; best_parameters = params[-1]
TrackBest(f, cost, recorded) ==
  IF FLt(cost, f.best_cost)
  THEN [f EXCEPT !.best_cost = cost, !.best_parameters = recorded]
  ELSE f

\* Variant of GradientDescentBody whose params entries are views of the
\* parameters tensor (no copy): the in-place update shows in every entry.
GradientDescentBodyAliased(f, xs, ys) ==
  LET cost == SumSquaredResiduals(f.parameters, xs, ys)
      gradient == Backward(f.grad, AutogradGradient(f.parameters, xs, ys))
      parameters == Descend(f.parameters, gradient, f.learning_rate)
      g == [f EXCEPT !.cost = cost, !.grad = gradient, !.parameters = parameters,
                     !.grads = Append(f.grads, gradient),
                     !.costs = Append(f.costs, cost),
                     !.params = Arr([j \in 1 .. Len(f.params) + 1 |-> parameters]),
                     !.iteration = f.iteration + 1]
  IN TrackBest(g, cost, parameters)

\* One pass through the loop body of gradient_descent.
GradientDescentBody(f, xs, ys) ==
  LET cost == SumSquaredResiduals(f.parameters, xs, ys)
      gradient == Backward(f.grad, AutogradGradient(f.parameters, xs, ys))
      parameters == Descend(f.parameters, gradient, f.learning_rate)
      g == [f EXCEPT !.cost = cost, !.grad = gradient, !.parameters = parameters,
                     !.grads = Append(f.grads, gradient),
                     !.costs = Append(f.costs, cost),
                     !.params = Append(f.params, parameters),
                     !.iteration = f.iteration + 1]
  IN TrackBest(g, cost, parameters)

\* Variant of ExactGradient scaled by the sum, as jacobian scales it.
ExactGradientSum(p, xs, ys) ==
  LET r == VSub(Quadratic(p, xs), ys)
      grad_a == FMul(FI(2), FSum(VMul(VSquare(xs), r)))
      grad_b == FMul(FI(2), FSum(VMul(xs, r)))
      grad_c == FMul(FI(2), FSum(r))
  IN <<grad_a, grad_b, grad_c>>

\* grad_a, grad_b, grad_c of gradient_descent_exact at (a, b, c) = p.
ExactGradient(p, xs, ys) ==
  LET r == VSub(Quadratic(p, xs), ys)
      grad_a == FMul(FI(2), FMean(VMul(VSquare(xs), r)))
      grad_b == FMul(FI(2), FMean(VMul(xs, r)))
      grad_c == FMul(FI(2), FMean(r))
  IN <<grad_a, grad_b, grad_c>>

\* Variant of GradientDescentExactBody that measures the cost after the
\* parameter update.
GradientDescentExactBodyCostAfter(f, xs, ys) ==
  LET gradient == ExactGradient(f.parameters, xs, ys)
      parameters == Descend(f.parameters, gradient, f.learning_rate)
      cost == SumSquaredResiduals(parameters, xs, ys)
      g == [f EXCEPT !.cost = cost, !.parameters = parameters,
                     !.grads = Append(f.grads, gradient),
                     !.costs = Append(f.costs, cost),
                     !.params = Append(f.params, parameters),
                     !.iteration = f.iteration + 1]
  IN TrackBest(g, cost, parameters)

\* Variant of GradientDescentExactBody that, like cost.backward(), adds each
\* gradient into a buffer kept from the iterations before.
GradientDescentExactBodyAccumulating(f, xs, ys) ==
  LET cost == SumSquaredResiduals(f.parameters, xs, ys)
      g0 == ExactGradient(f.parameters, xs, ys)
      gradient == Tup3([k \in 1 .. 3 |-> FAdd(f.grad[k], g0[k])])
      parameters == Descend(f.parameters, gradient, f.learning_rate)
      g == [f EXCEPT !.cost = cost, !.grad = gradient, !.parameters = parameters,
                     !.grads = Append(f.grads, gradient),
                     !.costs = Append(f.costs, cost),
                     !.params = Append(f.params, parameters),
                     !.iteration = f.iteration + 1]
  IN TrackBest(g, cost, parameters)

\* One pass through the loop body of gradient_descent_exact.
GradientDescentExactBody(f, xs, ys) ==
  LET cost == SumSquaredResiduals(f.parameters, xs, ys)
      gradient == ExactGradient(f.parameters, xs, ys)
      parameters == Descend(f.parameters, gradient, f.learning_rate)
      g == [f EXCEPT !.cost = cost, !.parameters = parameters,
                     !.grads = Append(f.grads, gradient),
                     !.costs = Append(f.costs, cost),
                     !.params = Append(f.params, parameters),
                     !.iteration = f.iteration + 1]
  IN TrackBest(g, cost, parameters)

\* Variant of LoopGuard that leaves the loop once the cost is not finite.
LoopGuardUntilDiverged(f) ==
  f.iteration < f.max_iterations /\ (IF f.cost = None THEN TRUE ELSE IsFinite(f.cost))

\* while iteration < max_iterations
LoopGuard(f) == f.iteration < f.max_iterations

\* Variant of ReturnValue that returns the empty trace when the loop never ran.
ReturnValueEmptyTrace(f) ==
  [status |-> "returned", fn |-> f.fn, max_iterations |-> f.max_iterations,
   cost |-> f.cost, costs |-> f.costs, grads |-> f.grads, params |-> f.params,
   fit_params |-> f.best_parameters, iterations |-> f.iteration]

\* The return statement: dict(cost=cost, ...) reads the local cost, which is
\* unbound when the loop body never ran.
ReturnValue(f) ==
  IF f.cost = None THEN [status |-> "UnboundLocalError", fn |-> f.fn,
                         max_iterations |-> f.max_iterations]
  ELSE [status |-> "returned", fn |-> f.fn, max_iterations |-> f.max_iterations,
        cost |-> f.cost, costs |-> f.costs, grads |-> f.grads, params |-> f.params,
        fit_params |-> f.best_parameters, iterations |-> f.iteration]

\* Learning rates and iteration counts the calls are given.
LearningRates == {Fl(1, 2), FI(1), FI(64)}

IterationCounts == -1 .. MaxIter

Idle == frame = NoFrame /\ gd_result = NoResult /\ objective_value = NoResult

GradientDescentCall ==
  /\ Idle
  /\ \E lr \in LearningRates, mi \in IterationCounts :
       frame' = NewFrame("gradient_descent", lr, mi, <<FI(1), FI(1), FI(1)>>)
  /\ UNCHANGED <<n_samples, targets, x, y, qr_result, hessian, params, solution,
                 gd_result, objective_value,
                 hess_value, titanic_vars>>

GradientDescentIterate ==
  /\ frame.fn = "gradient_descent"
  /\ LoopGuard(frame)
  /\ frame' = GradientDescentBody(frame, x, y)
  /\ UNCHANGED <<n_samples, targets, x, y, qr_result, hessian, params, solution,
                 gd_result, objective_value,
                 hess_value, titanic_vars>>

GradientDescentExactCall ==
  /\ Idle
  /\ \E lr \in LearningRates, mi \in IterationCounts, start \in Starts :
       frame' = NewFrame("gradient_descent_exact", lr, mi, IntsToFloats(start))
  /\ UNCHANGED <<n_samples, targets, x, y, qr_result, hessian, params, solution,
                 gd_result, objective_value,
                 hess_value, titanic_vars>>

\* Variant of GradientDescentExactIterate that sorts the caller's y in place
\* (descending) before it iterates.
GradientDescentExactIterateInPlace ==
  /\ frame.fn = "gradient_descent_exact"
  /\ LoopGuard(frame)
  /\ frame' = GradientDescentExactBody(frame, x, y)
  /\ y' = Arr([i \in DOMAIN y |-> y[Len(y) + 1 - i]])
  /\ UNCHANGED <<n_samples, targets, x, qr_result, hessian, params, solution,
                 gd_result, objective_value, hess_value, titanic_vars>>

GradientDescentExactIterate ==
  /\ frame.fn = "gradient_descent_exact"
  /\ LoopGuard(frame)
  /\ frame' = GradientDescentExactBody(frame, x, y)
  /\ UNCHANGED <<n_samples, targets, x, y, qr_result, hessian, params, solution,
                 gd_result, objective_value,
                 hess_value, titanic_vars>>

GradientDescentReturn ==
  /\ frame # NoFrame
  /\ ~LoopGuard(frame)
  /\ gd_result' = ReturnValue(frame)
  /\ frame' = NoFrame
  /\ UNCHANGED <<n_samples, targets, x, y, qr_result, hessian, params, solution,
                 objective_value,
                 hess_value, titanic_vars>>

\* -------------------------------------------------------------- objective
\* Denominator of the grid np.sqrt results are rounded up to.
SqrtGrid == 16

RECURSIVE ISqrtCeilIn(_, _, _)
ISqrtCeilIn(n, lo, hi) ==
  IF lo >= hi THEN lo
  ELSE LET mid == (lo + hi) \div 2
       IN IF mid * mid >= n THEN ISqrtCeilIn(n, lo, mid) ELSE ISqrtCeilIn(n, mid + 1, hi)

\* The least k with k * k >= n, for 0 <= n <= 46340 * 46340.
ISqrtCeil(n) == ISqrtCeilIn(n, 0, 46340)

\* np.sqrt: NaN for NaN and negative arguments, exact on perfect squares,
\* otherwise the next grid point above the root.
FSqrt(a) ==
  IF IsNaN(a) \/ a[1] < 0 THEN NaN
  ELSE IF a = PInf THEN PInf
  ELSE Fl(ISqrtCeil(a[1] * a[2] * SqrtGrid * SqrtGrid), a[2] * SqrtGrid)

\* objective(parameters), reading the globals x and y.
Objective(p, xs, ys) == FSqrt(FSum(VSquare(VSub(Quadratic(p, xs), ys))))

\* The BFGS cell: params = np.random.randn(3), then minimize evaluates fun and
\* jac at x0 = params.
ObjectiveCall ==
  /\ Idle
  /\ \E p \in Starts :
       /\ params' = IntsToFloats(p)
       /\ objective_value' = [status |-> "returned", parameters |-> params',
                              value |-> Objective(params', x, y),
                              jacobian |-> Jacobian(params', x, y)]
  /\ UNCHANGED <<n_samples, targets, x, y, qr_result, hessian, solution,
                 frame, gd_result, hess_value, titanic_vars>>

\* ------------------------------------------------ sample generation cell
SortedSamples(n, vals) == {s \in [1 .. n -> vals] : IsSorted(s)}

InitCommon ==
  /\ qr_result = NoResult
  /\ hessian = None
  /\ params = None
  /\ solution = NoResult
  /\ frame = NoFrame
  /\ gd_result = NoResult
  /\ objective_value = NoResult
  /\ hess_value = NoResult
  /\ passenger = None
  /\ bh_test = None
  /\ modified = None
  /\ named = None

Init ==
  /\ n_samples \in 3 .. MaxN
  /\ targets \in TVals \X TVals \X TVals
  /\ \E xs \in SortedSamples(n_samples, XVals) : x = IntsToFloats(xs)
  /\ \E noise \in NoisePatterns(n_samples) :
        y = NoisyQuad(IntsToFloats(targets), x, noise)
  /\ InitCommon

Next ==
  \/ QuadraticRegressionCall
  \/ HessianCell
  \/ NewtonStep
  \/ HessCall

\* The regression cell, the hessian cell and the Newton step on one sample set.
Spec == Init /\ [][Next]_vars

\* Sample sets the gradient-descent runs are given.
GDXVals == -1 .. 1

GDTargets == {<<4, 3, -1>>, <<0, -1, 1>>}

InitGD ==
  /\ n_samples \in 3 .. MaxN
  /\ targets \in GDTargets
  /\ \E xs \in SortedSamples(n_samples, GDXVals) : x = IntsToFloats(xs)
  /\ \E noise \in NoisePatterns(n_samples) :
        y = NoisyQuad(IntsToFloats(targets), x, noise)
  /\ InitCommon

NextGD ==
  \/ GradientDescentCall
  \/ GradientDescentIterate
  \/ GradientDescentExactCall
  \/ GradientDescentExactIterate
  \/ GradientDescentReturn
  \/ ObjectiveCall

\* One call of gradient_descent, gradient_descent_exact or objective on one sample set.
SpecGD == InitGD /\ [][NextGD]_vars

\* One small experiment for the run of the whole notebook: three samples
\* without noise.
InitNotebook ==
  /\ n_samples = 3
  /\ targets \in GDTargets
  /\ \E xs \in SortedSamples(n_samples, GDXVals) : x = IntsToFloats(xs)
  /\ y = NoisyQuad(IntsToFloats(targets), x, [i \in 1 .. n_samples |-> 0])
  /\ InitCommon

NextNotebook ==
  \/ QuadraticRegressionCall
  \/ GradientDescentCall
  \/ GradientDescentIterate
  \/ GradientDescentExactCall
  \/ GradientDescentExactIterate
  \/ GradientDescentReturn
  \/ ObjectiveCall
  \/ HessianCell
  \/ HessCall
  \/ NewtonStep

\* Every cell of the notebook on one sample set.
SpecNotebook == InitNotebook /\ [][NextNotebook]_vars

\* ------------------------------------------------------- titanic notebook
\* Longest ticket string of a row.
MaxTicketLen == 4

child_age == FI(12)

\* (column == "female").astype(int), (column <= child_age).astype(int)
AsInt(b) == IF b THEN 1 ELSE 0

\* Sex | Age on the two 0/1 columns.
BitOr(a, b) == IF a = 1 \/ b = 1 THEN 1 ELSE 0

\* The Birkenhead cell on one row of test: Sex and Age are overwritten by
\* indicators and Survived is their bitwise or.  A missing Age is NaN.
Birkenhead(row) ==
  LET Sex == AsInt(row.Sex = "female")
      Age == AsInt(FLe(row.Age, child_age))
  IN [Sex |-> Sex, Age |-> Age, Survived |-> BitOr(Sex, Age)]

BirkenheadCell ==
  /\ passenger # None
  /\ bh_test = None
  /\ bh_test' = Birkenhead(passenger)
  /\ UNCHANGED <<n_samples, targets, x, y, qr_result, hessian, params, solution, frame,
                 gd_result, objective_value, hess_value, passenger, modified, named>>

Digits == <<"0", "1", "2", "3", "4", "5", "6", "7", "8", "9">>

\* str.isdigit and str.isalpha on one character.
IsDigit(c) == \E d \in 1 .. 10 : Digits[d] = c

IsAlpha(c) ==
  c \in {"A", "B", "C", "D", "E", "F", "G", "H", "I", "J", "K", "L", "M", "N", "O", "P", "Q", "R", "S", "T", "U", "V", "W", "X", "Y", "Z",
         "a", "b", "c", "d", "e", "f", "g", "h", "i", "j", "k", "l", "m", "n", "o", "p", "q", "r", "s", "t", "u", "v", "w", "x", "y", "z"}

\* "".join(filter(pred, ticket)) for pred = str.isdigit / str.isalpha.
RECURSIVE FilterDigits(_)
FilterDigits(t) ==
  IF t = <<>> THEN <<>>
  ELSE IF IsDigit(Head(t)) THEN <<Head(t)>> \o FilterDigits(Tail(t))
  ELSE FilterDigits(Tail(t))

RECURSIVE FilterAlpha(_)
FilterAlpha(t) ==
  IF t = <<>> THEN <<>>
  ELSE IF IsAlpha(Head(t)) THEN <<Head(t)>> \o FilterAlpha(Tail(t))
  ELSE FilterAlpha(Tail(t))

\* int(s) for a non-empty string of digits.
RECURSIVE ParseInt(_)
ParseInt(ds) ==
  IF ds = <<>> THEN 0
  ELSE ParseInt(SubSeq(ds, 1, Len(ds) - 1)) * 10
       + ((CHOOSE d \in 1 .. 10 : Digits[d] = ds[Len(ds)]) - 1)

\* ticket_to_number on a string (the Ticket column holds strings only).
ticket_to_number(ticket) ==
  LET no_letters == FilterDigits(ticket)
  IN IF Len(no_letters) > 0 THEN ParseInt(no_letters) ELSE 0

\* process_ticket on one row: the returned copy loses Ticket and gains
\* ticket_modifier and ticket_number.
process_ticket(row) ==
  [Sex |-> row.Sex, Age |-> row.Age, Name |-> row.Name,
   ticket_modifier |-> AsInt(Len(FilterAlpha(row.Ticket)) > 0),
   ticket_number |-> ticket_to_number(row.Ticket)]

ProcessTicketCall ==
  /\ passenger # None
  /\ modified = None
  /\ modified' = process_ticket(passenger)
  /\ UNCHANGED <<n_samples, targets, x, y, qr_result, hessian, params, solution, frame,
                 gd_result, objective_value, hess_value, passenger, bh_test, named>>

UpperCase == <<"A", "B", "C", "D", "E", "F", "G", "H", "I", "J", "K", "L", "M", "N", "O", "P", "Q", "R", "S", "T", "U", "V", "W", "X", "Y", "Z">>

LowerCase == <<"a", "b", "c", "d", "e", "f", "g", "h", "i", "j", "k", "l", "m", "n", "o", "p", "q", "r", "s", "t", "u", "v", "w", "x", "y", "z">>

\* str.lower on one character (case=False folds both sides).
Lower(c) ==
  IF \E k \in 1 .. 26 : UpperCase[k] = c
  THEN LowerCase[CHOOSE k \in 1 .. 26 : UpperCase[k] = c]
  ELSE c

\* The regular expression a pattern string compiles to: a backslash makes the
\* next character a literal, an unescaped "." matches any character but a
\* newline, every other character matches itself.
RECURSIVE Compile(_)
Compile(pat) ==
  IF pat = <<>> THEN <<>>
  ELSE IF Head(pat) = "\\" /\ Len(pat) >= 2
       THEN <<[kind |-> "lit", ch |-> pat[2]]>> \o Compile(SubSeq(pat, 3, Len(pat)))
  ELSE IF Head(pat) = "."
       THEN <<[kind |-> "any"]>> \o Compile(Tail(pat))
  ELSE <<[kind |-> "lit", ch |-> Head(pat)]>> \o Compile(Tail(pat))

\* Variant of Matches that reads "." as a literal full stop.
MatchesLiteralDot(tok, c, case) ==
  IF tok.kind = "any" THEN c = "."
  ELSE IF case THEN tok.ch = c ELSE Lower(tok.ch) = Lower(c)

\* One pattern element against one character.
Matches(tok, c, case) ==
  IF tok.kind = "any" THEN c # "\n"
  ELSE IF case THEN tok.ch = c ELSE Lower(tok.ch) = Lower(c)

\* Series.str.contains(pat, case=case) on one name: re.search finds the
\* pattern at some position.
Contains(name, pat, case) ==
  LET re == Compile(pat)
  IN \E i \in 0 .. Len(name) - Len(re) :
        \A j \in 1 .. Len(re) : Matches(re[j], name[i + j], case)

\* process_names on one row: the returned copy loses Name and gains the five
\* title indicators.
process_names(row) ==
  LET master == AsInt(Contains(row.Name, <<"m", "a", "s", "t", "e", "r">>, FALSE))
      mrs == AsInt(Contains(row.Name, <<"M", "r", "s">>, TRUE))
      miss == AsInt(Contains(row.Name, <<"M", "i", "s", "s">>, TRUE))
      widow == AsInt(mrs = 1 /\ ~Contains(row.Name, <<"\\", "(">>, TRUE))
      mr == AsInt(Contains(row.Name, <<"M", "r", ".">>, TRUE))
  IN [Sex |-> row.Sex, Age |-> row.Age, Ticket |-> row.Ticket,
      master |-> master, mrs |-> mrs, miss |-> miss, widow |-> widow, mr |-> mr]

ProcessNamesCall ==
  /\ passenger # None
  /\ named = None
  /\ named' = process_names(passenger)
  /\ UNCHANGED <<n_samples, targets, x, y, qr_result, hessian, params, solution, frame,
                 gd_result, objective_value, hess_value, passenger, bh_test, modified>>

\* Rows read from train.csv / test.csv: ages around child_age in half years
\* or missing, tickets of letters, digits and blanks.
Ages == {Fl(h, 2) : h \in 22 .. 27} \cup {NaN}

TicketChars == {"A", "5", "2", " "}

Tickets == UNION {[1 .. n -> TicketChars] : n \in 1 .. MaxTicketLen}

\* Longest name string of a row.
MaxNameLen == 4

NameChars == {"M", "r", "s", "(", "."}

Names == UNION {[1 .. n -> NameChars] : n \in 1 .. MaxNameLen}

\* Rows with every sex, age and ticket under one name, and rows with every
\* name under one sex, age and ticket.
Rows ==
  {[Sex |-> sex, Age |-> age, Ticket |-> Arr(ticket), Name |-> <<"M", "r", ".">>] :
     sex \in {"male", "female"}, age \in Ages, ticket \in Tickets}
  \cup {[Sex |-> "female", Age |-> NaN, Ticket |-> <<"2">>, Name |-> Arr(name)] :
          name \in Names}

InitTitanic ==
  /\ n_samples = 0
  /\ targets = None
  /\ x = <<>>
  /\ y = <<>>
  /\ qr_result = NoResult
  /\ hessian = None
  /\ params = None
  /\ solution = NoResult
  /\ frame = NoFrame
  /\ gd_result = NoResult
  /\ objective_value = NoResult
  /\ hess_value = NoResult
  /\ passenger \in Rows
  /\ bh_test = None
  /\ modified = None
  /\ named = None

NextTitanic ==
  \/ BirkenheadCell
  \/ ProcessTicketCall
  \/ ProcessNamesCall

\* The Birkenhead cell and process_ticket on one row.
SpecTitanic == InitTitanic /\ [][NextTitanic]_vars

\* ------------------------------------------------------------------ claims
Distinct(xs) == {xs[i] : i \in DOMAIN xs}

NoiseFree == y = Quadratic(IntsToFloats(targets), x)

SameTriple(u, v) == \A k \in 1 .. 3 : FEq(u[k], v[k])

\* C1: on a sample set whose normal matrix is invertible, the single-step
\* Newton update params - inv(hessian) . jacobian(params) equals the fit_params
\* that quadratic_regression returned for the same samples.
C1_NewtonEqualsRegression ==
  (/\ qr_result.status = "returned"
   /\ solution.status = "returned"
   /\ ~IsSingular(NormalMatrix(x)))
  => SameTriple(solution.value, qr_result.fit_params)

C1_Witness ==
  /\ qr_result.status = "returned"
  /\ solution.status = "returned"
  /\ ~IsSingular(NormalMatrix(x))
  /\ ~NoiseFree
  /\ qr_result.cost # Zero
  /\ params # qr_result.fit_params

\* C2: on noise-free samples with at least 3 distinct x values,
\* quadratic_regression returns the ground truth (a, b, c) as fit_params and a
\* mean squared residual of 0.
C2_RegressionRecoversTruth ==
  (/\ qr_result # NoResult
   /\ NoiseFree
   /\ Cardinality(Distinct(x)) >= 3)
  => /\ qr_result.status = "returned"
     /\ SameTriple(qr_result.fit_params, IntsToFloats(targets))
     /\ FEq(qr_result.cost, Zero)

C2_Witness ==
  /\ qr_result.status = "returned"
  /\ NoiseFree
  /\ Cardinality(Distinct(x)) >= 3
  /\ n_samples > 3
  /\ targets[1] # targets[2]
  /\ targets[1] # 0

\* C3: the single-step Newton update gives the same point from every start,
\* and on noise-free samples with at least 3 distinct x values that point is
\* the ground truth (a, b, c).
C3_NewtonOneStep ==
  (/\ solution.status = "returned"
   /\ Cardinality(Distinct(x)) >= 3)
  => /\ \A p \in Starts :
          \A o \in InvOutcomes(hessian) :
             SameTriple(NewtonUpdate(IntsToFloats(p), hessian, x, y, o).value, solution.value)
     /\ NoiseFree => SameTriple(solution.value, IntsToFloats(targets))

C3_Witness ==
  /\ solution.status = "returned"
  /\ Cardinality(Distinct(x)) >= 3
  /\ NoiseFree
  /\ params # IntsToFloats(targets)
  /\ Jacobian(params, x, y) # <<Zero, Zero, Zero>>

\* C4: a gradient-descent call runs the loop body exactly max_iterations times
\* whatever the costs are and then returns: every step of a running call is
\* one more iteration, with one more record in costs and in params, until
\* iteration = max_iterations, where the call ends; what it returns has
\* iterations = max_iterations and max_iterations records in costs and params.
C4_Running ==
  frame # NoFrame =>
    /\ frame.max_iterations >= 0 => frame.iteration <= frame.max_iterations
    /\ Len(frame.costs) = frame.iteration
    /\ Len(frame.params) = frame.iteration

C4_Returned ==
  gd_result.status = "returned" =>
    /\ gd_result.iterations = gd_result.max_iterations
    /\ Len(gd_result.costs) = gd_result.max_iterations
    /\ Len(gd_result.params) = gd_result.max_iterations

C4_Step ==
  frame # NoFrame =>
    IF frame.iteration < frame.max_iterations
    THEN frame' # NoFrame /\ frame'.iteration = frame.iteration + 1
    ELSE frame' = NoFrame /\ gd_result' # NoResult

C4_FixedIterationCount == [](C4_Running /\ C4_Returned) /\ [][C4_Step]_vars

C4_Witness ==
  /\ gd_result.status = "returned"
  /\ gd_result.iterations = MaxIter
  /\ \E j \in 1 .. MaxIter - 1 : ~IsFinite(gd_result.costs[j])

\* C5: the fit_params a gradient-descent call returns is the lowest-cost
\* snapshot: the sum of squared residuals at fit_params is no greater than at
\* any parameter snapshot recorded in params.
C5_FitParamsIsBestSnapshot ==
  gd_result.status = "returned" =>
    \A j \in 1 .. Len(gd_result.params) :
       ~FLt(SumSquaredResiduals(gd_result.params[j], x, y),
            SumSquaredResiduals(gd_result.fit_params, x, y))

\* C6: after every iteration best_cost is the minimum of the costs recorded so
\* far and best_parameters is the params entry of the first iteration whose
\* cost equals that minimum.
C6_BestTracksFirstMinimum ==
  (frame # NoFrame /\ frame.iteration >= 1) =>
    /\ \A j \in 1 .. Len(frame.costs) : ~FLt(frame.costs[j], frame.best_cost)
    /\ \E j \in 1 .. Len(frame.costs) :
         /\ FEq(frame.costs[j], frame.best_cost)
         /\ \A i \in 1 .. j - 1 : ~FEq(frame.costs[i], frame.best_cost)
         /\ frame.best_parameters = frame.params[j]

C6_Witness ==
  /\ frame # NoFrame
  /\ frame.iteration >= 3
  /\ frame.costs[2] = frame.best_cost
  /\ frame.costs[3] = frame.best_cost
  /\ frame.costs[1] # frame.best_cost
  /\ frame.params[2] # frame.params[3]

\* C7: every cost a gradient-descent iteration computes and every value of
\* objective is non-negative, and is zero exactly when the prediction equals y
\* at every sample.
C7_CostAt(c, p) ==
  /\ FLe(Zero, c)
  /\ FEq(c, Zero) <=> Quadratic(p, x) = y

C8_Gradient(p) ==
  LET r == VSub(Quadratic(p, x), y)
  IN <<FMul(FI(2), FSum(VMul(VSquare(x), r))), FMul(FI(2), FSum(VMul(x, r))),
       FMul(FI(2), FSum(r))>>

C8_Before(f, j) == IF j = 1 THEN <<FI(1), FI(1), FI(1)>> ELSE f.params[j - 1]

C8_SingleIterationGradient ==
  frame.fn = "gradient_descent" =>
    /\ frame.iteration = 0 => frame.parameters = <<FI(1), FI(1), FI(1)>>
    /\ \A j \in 1 .. Len(frame.grads) :
         /\ frame.grads[j] = C8_Gradient(C8_Before(frame, j))
         /\ frame.params[j] =
              Tup3([k \in 1 .. 3 |->
                      FSub(C8_Before(frame, j)[k],
                           FMul(frame.learning_rate, frame.grads[j][k]))])

\* C9: in every iteration of gradient_descent_exact the recorded gradient is
\* (2*mean(x^2*(yhat-y)), 2*mean(x*(yhat-y)), 2*mean(yhat-y)) at the
\* parameters the iteration started from, and the recorded parameters are those
\* parameters minus learning_rate times that gradient, all three at once.
C9_Gradient(p) ==
  LET yhat == Quadratic(p, x)
      r == VSub(yhat, y)
  IN <<FMul(FI(2), FDivI(FSum(VMul(VSquare(x), r)), n_samples)),
       FMul(FI(2), FDivI(FSum(VMul(x, r)), n_samples)),
       FMul(FI(2), FDivI(FSum(r), n_samples))>>

C10_SingularFailsExplicitly ==
  (qr_result # NoResult /\ Cardinality(Distinct(x)) < 3)
  => qr_result.status = "LinAlgError"

\* C11: the hessian the cell builds is 2*[[Sx4, Sx3, Sx2], [Sx3, Sx2, Sx],
\* [Sx2, Sx, N]] with N = len(x), it is symmetric, once built it is never
\* rebuilt or changed, and the hess callback returns that same matrix for
\* whatever parameter point it is asked about.
C11_PowerSum(k) ==
  FSum(Arr([i \in DOMAIN x |->
              IF k = 0 THEN FI(1)
              ELSE IF k = 1 THEN x[i]
              ELSE IF k = 2 THEN FMul(x[i], x[i])
              ELSE IF k = 3 THEN FMul(x[i], FMul(x[i], x[i]))
              ELSE FMul(FMul(x[i], x[i]), FMul(x[i], x[i]))]))

C11_Matrix ==
  Tup3([r \in 1 .. 3 |-> Tup3([c \in 1 .. 3 |->
          FMul(FI(2), C11_PowerSum(6 - r - c))])])

C11_State ==
  /\ hessian # None =>
       /\ hessian = C11_Matrix
       /\ \A r \in 1 .. 3 : \A c \in 1 .. 3 : hessian[r][c] = hessian[c][r]
  /\ hess_value.status = "returned" => hess_value.value = C11_Matrix

C11_Step == hessian # None => hessian' = hessian

C12_Loss(p) == FSum(VSquare(VSub(Quadratic(p, x), y)))

C12_Shift(p, k, d) == Tup3([j \in 1 .. 3 |-> IF j = k THEN FAdd(p[j], FI(d)) ELSE p[j]])

\* dL/dp_k at p: L is quadratic in p, so the central difference is exact.
C12_LossPartial(p, k) ==
  FDivI(FSub(C12_Loss(C12_Shift(p, k, 1)), C12_Loss(C12_Shift(p, k, -1))), 2)

C12_JacobianIsGradientOfObjective ==
  (/\ objective_value.status = "returned"
   /\ IsFinite(objective_value.value)
   /\ FLt(Zero, objective_value.value)
   /\ FMul(objective_value.value, objective_value.value)
        = C12_Loss(objective_value.parameters))
  => \A k \in 1 .. 3 :
       FMul(FMul(FI(2), objective_value.value), objective_value.jacobian[k])
         = C12_LossPartial(objective_value.parameters, k)

\* C13: a run of gradient_descent_exact is a function of the start point the
\* random state yields, the samples, the learning rate and the iteration
\* number: after k iterations its costs, gradients, params and best parameters
\* are those of the run replayed from the same start, so two runs from the
\* same random state have identical traces.
RECURSIVE C13_Replay(_, _, _)
C13_Replay(start, lr, k) ==
  IF k = 0
  THEN [parameters |-> start, costs |-> <<>>, grads |-> <<>>, params |-> <<>>,
        best_cost |-> PInf, fit_params |-> None]
  ELSE LET t == C13_Replay(start, lr, k - 1)
           p == t.parameters
           r == VSub(Quadratic(p, x), y)
           cost == FSum(VSquare(r))
           g == <<FMul(FI(2), FMean(VMul(VSquare(x), r))),
                  FMul(FI(2), FMean(VMul(x, r))),
                  FMul(FI(2), FMean(r))>>
           q == Tup3([j \in 1 .. 3 |-> FSub(p[j], FMul(g[j], lr))])
           better == FLt(cost, t.best_cost)
       IN [parameters |-> q, costs |-> Append(t.costs, cost),
           grads |-> Append(t.grads, g), params |-> Append(t.params, q),
           best_cost |-> IF better THEN cost ELSE t.best_cost,
           fit_params |-> IF better THEN q ELSE t.fit_params]

C13_SameTrace(t, costs, grads, ps, fit) ==
  /\ t.costs = costs
  /\ t.grads = grads
  /\ t.params = ps
  /\ t.fit_params = fit

C14_Step ==
  /\ Len(x') = Len(x)
  /\ Len(y') = Len(y)
  /\ \A i \in DOMAIN x : x'[i] = x[i]
  /\ \A i \in DOMAIN y : y'[i] = y[i]

C14_SamplesReadOnly == [][C14_Step]_vars

C14_Witness ==
  /\ qr_result.status = "returned"
  /\ solution.status = "returned"
  /\ gd_result.status = "returned"
  /\ gd_result.fn = "gradient_descent_exact"
  /\ gd_result.iterations >= 2
  /\ y[1] # y[Len(y)]

\* C15: no optimisation path reads or writes state that belongs to another:
\* the start point one path has drawn (the value of params) is never rewritten
\* by a later path, so that the Newton step works on the start point that was
\* handed to it and not on one left behind by another cell.
C15_Step == params # None => params' = params

C15_NoSharedState == [][C15_Step]_vars

\* C16: a gradient-descent run whose cost or parameters leave the finite range
\* is reported as diverged: no cost, params entry or fit_params that the call
\* returns as an ordinary result is inf or NaN.
C16_FiniteTriple(p) == \A k \in 1 .. 3 : IsFinite(p[k])

C16_DivergenceDetected ==
  gd_result.status = "returned" =>
    /\ IsFinite(gd_result.cost)
    /\ \A j \in 1 .. Len(gd_result.costs) : IsFinite(gd_result.costs[j])
    /\ \A j \in 1 .. Len(gd_result.params) : C16_FiniteTriple(gd_result.params[j])
    /\ C16_FiniteTriple(gd_result.fit_params)

\* C17: the Birkenhead model predicts survival exactly for the passengers who
\* are female or under the age of 13 (a known age below 13, whole or not);
\* a male of unknown age or of age 13 or more is predicted not to survive.
C17_BirkenheadRule ==
  bh_test # None =>
    (bh_test.Survived = 1 <=>
       (passenger.Sex = "female" \/ FLt(passenger.Age, FI(13))))

\* C18: process_ticket gives ticket_modifier 0 exactly when no letter stands in
\* front of the ticket number, ticket_number the number part of the ticket
\* (its digits after the modifier), and ticket_number 0 for a ticket of letters
\* only.  A ticket is a number, a modifier and a number separated by a blank,
\* or letters only.
C18_AllDigits(t) == t # <<>> /\ \A i \in DOMAIN t : IsDigit(t[i])

C18_AllLetters(t) == t # <<>> /\ \A i \in DOMAIN t : IsAlpha(t[i])

C18_Value(t) ==
  IF t = <<>> THEN 0
  ELSE LET d == CHOOSE k \in 0 .. 9 : Digits[k + 1] = t[Len(t)]
       IN 10 * ParseInt(SubSeq(t, 1, Len(t) - 1)) + d

C18_Splits(t) ==
  {i \in 1 .. Len(t) - 1 :
     /\ t[i] = " "
     /\ C18_AllDigits(SubSeq(t, i + 1, Len(t)))
     /\ \A j \in 1 .. i - 1 : t[j] # " "}

C18_TicketSplit ==
  modified # None =>
    LET t == passenger.Ticket
    IN /\ C18_AllDigits(t) =>
            modified.ticket_modifier = 0 /\ modified.ticket_number = C18_Value(t)
       /\ C18_AllLetters(t) =>
            modified.ticket_modifier = 1 /\ modified.ticket_number = 0
       /\ \A i \in C18_Splits(t) :
            /\ modified.ticket_modifier = 1
                 <=> (\E j \in 1 .. i - 1 : IsAlpha(t[j]))
            /\ modified.ticket_number = C18_Value(SubSeq(t, i + 1, Len(t)))

\* C19: the trace of a gradient-descent run is append-only: at every loop
\* state costs, grads and params have as many records as iterations were run,
\* each iteration adds exactly one record to each, and the records already
\* there are left as they were.
C19_Lengths ==
  frame # NoFrame =>
    /\ Len(frame.costs) = frame.iteration
    /\ Len(frame.grads) = frame.iteration
    /\ Len(frame.params) = frame.iteration

C19_Prefix(old, new) ==
  /\ Len(new) = Len(old) + 1
  /\ \A j \in 1 .. Len(old) : new[j] = old[j]

C19_Step ==
  (frame # NoFrame /\ frame' # NoFrame) =>
    /\ C19_Prefix(frame.costs, frame'.costs)
    /\ C19_Prefix(frame.grads, frame'.grads)
    /\ C19_Prefix(frame.params, frame'.params)

C19_AppendOnlyTrace == []C19_Lengths /\ [][C19_Step]_vars

C19_Witness ==
  /\ frame.fn = "gradient_descent"
  /\ frame.iteration = MaxIter
  /\ frame.params[1] # frame.params[2]
  /\ frame.grads[1] # frame.grads[2]
  /\ \A j \in 1 .. MaxIter : IsFinite(frame.costs[j])

\* C20: the cost of a record is measured before the record's update: costs[0]
\* is the sum of squared residuals at the initial parameters, costs[i+1] the
\* one at params[i], and the cost the call returns is the last of them, so the
\* cost at the last recorded parameters appears nowhere.  (Indices from 1
\* below.)
C20_SSR(p) ==
  LET r == VSub(Quadratic(p, x), y) IN FSum(Arr([i \in DOMAIN r |-> FMul(r[i], r[i])]))

C20_InitialParameters(fn) ==
  IF fn = "gradient_descent" THEN {<<FI(1), FI(1), FI(1)>>}
  ELSE {IntsToFloats(s) : s \in Starts}

C20_Trace(fn, costs, ps) ==
  /\ Len(costs) = Len(ps)
  /\ Len(costs) >= 1 => \E p \in C20_InitialParameters(fn) : costs[1] = C20_SSR(p)
  /\ \A j \in 2 .. Len(costs) : costs[j] = C20_SSR(ps[j - 1])

C20_CostBeforeUpdate ==
  /\ frame # NoFrame =>
       /\ C20_Trace(frame.fn, frame.costs, frame.params)
       /\ frame.iteration = 0 => frame.parameters \in C20_InitialParameters(frame.fn)
       /\ frame.iteration >= 1 =>
            /\ frame.cost = frame.costs[frame.iteration]
            /\ frame.parameters = frame.params[frame.iteration]
  /\ gd_result.status = "returned" =>
       /\ C20_Trace(gd_result.fn, gd_result.costs, gd_result.params)
       /\ gd_result.cost = gd_result.costs[gd_result.iterations]

C20_Witness ==
  /\ gd_result.status = "returned"
  /\ gd_result.iterations = MaxIter
  /\ IsFinite(gd_result.cost)
  /\ C20_SSR(gd_result.params[MaxIter]) # gd_result.cost
  /\ \A j \in 1 .. MaxIter : C20_SSR(gd_result.params[MaxIter]) # gd_result.costs[j]

\* C21: a gradient-descent call with max_iterations <= 0 runs no loop
\* iteration (its frame stays at iteration 0 with empty histories and its next
\* step is the return) and the return statement fails with UnboundLocalError
\* because cost was never assigned; no result with an empty trace comes back.
C21_NoIteration ==
  (frame # NoFrame /\ frame.max_iterations <= 0) =>
    /\ frame.iteration = 0
    /\ frame.costs = <<>> /\ frame.grads = <<>> /\ frame.params = <<>>
    /\ frame.cost = None

C21_ReturnFails ==
  (gd_result # NoResult /\ gd_result.max_iterations <= 0) =>
    gd_result.status = "UnboundLocalError"

C21_Step ==
  (frame # NoFrame /\ frame.max_iterations <= 0) =>
    frame' = NoFrame /\ gd_result'.status = "UnboundLocalError"

C21_NoIterationsFails == [](C21_NoIteration /\ C21_ReturnFails) /\ [][C21_Step]_vars

C21_Witness ==
  /\ gd_result.status = "UnboundLocalError"
  /\ gd_result.max_iterations < 0
  /\ gd_result.fn = "gradient_descent_exact"

\* C22: in the row process_names returns, mrs = 1 implies mr = 1 (the
\* indicators are not mutually exclusive), widow = 1 exactly when mrs = 1 and
\* the name has no opening parenthesis, and the row has no Name column; the
\* input row keeps its Name through the call.
C22_HasMrs(name) ==
  \E i \in 1 .. Len(name) - 2 : name[i] = "M" /\ name[i + 1] = "r" /\ name[i + 2] = "s"

C22_State ==
  named # None =>
    /\ named.mrs = 1 <=> C22_HasMrs(passenger.Name)
    /\ named.mrs = 1 => named.mr = 1
    /\ named.widow = 1 <=>
         (named.mrs = 1 /\ \A i \in DOMAIN passenger.Name : passenger.Name[i] # "(")
    /\ "Name" \notin DOMAIN named
    /\ "Name" \in DOMAIN passenger

C22_Step == passenger'.Name = passenger.Name

C22_TitlesOverlap == []C22_State /\ [][C22_Step]_vars

C22_Witness ==
  /\ named # None
  /\ named.mrs = 1
  /\ named.mr = 1
  /\ named.widow = 0
  /\ \A i \in 1 .. Len(passenger.Name) - 2 :
        ~(passenger.Name[i] = "M" /\ passenger.Name[i + 1] = "r"
          /\ passenger.Name[i + 2] = ".")

====
